---- MODULE Spec2Model ----
(***************************************************************************)
(* A model of setup_github_issues.py: the driver that creates the labels,  *)
(* the milestones and the issues of DubiWork/maaser-tracker by running the *)
(* gh command-line client once per record.                                 *)
(*                                                                         *)
(* Every call of run_gh_command is two steps, the spawn of the gh process  *)
(* and its exit, so that what happens while a process is outstanding is    *)
(* visible. The exit status, the standard output and the standard error of *)
(* a process are chosen by the environment.                                *)
(*                                                                         *)
(* Texts the program only passes through (names, titles, arguments) are    *)
(* TLA+ strings. Texts the program parses (the standard output of gh) are  *)
(* sequences of one-character strings.                                     *)
(***************************************************************************)
EXTENDS Integers, Sequences, FiniteSets, TLC

OWNER == "DubiWork"
REPO == "maaser-tracker"

\* LABELS (src lines 14-29): the declared label records, in declaration order.
LABELS ==
  << [name |-> "epic", color |-> "7057ff", description |-> "Epic-level issue"],
     [name |-> "story", color |-> "0e8a16", description |-> "User story"],
     [name |-> "task", color |-> "1d76db", description |-> "Technical task"],
     [name |-> "bug", color |-> "d73a4a", description |-> "Bug fix"],
     [name |-> "P0-critical", color |-> "b60205", description |-> "Critical priority"],
     [name |-> "P1-high", color |-> "d93f0b", description |-> "High priority"],
     [name |-> "P2-medium", color |-> "fbca04", description |-> "Medium priority"],
     [name |-> "P3-low", color |-> "c2e0c6", description |-> "Low priority"],
     [name |-> "frontend", color |-> "bfdadc", description |-> "Frontend work"],
     [name |-> "backend", color |-> "fef2c0", description |-> "Backend/data work"],
     [name |-> "testing", color |-> "d4c5f9", description |-> "Testing work"],
     [name |-> "infrastructure", color |-> "f9d0c4", description |-> "CI/CD, DevOps"],
     [name |-> "pwa", color |-> "5319e7", description |-> "PWA related"],
     [name |-> "i18n", color |-> "bfd4f2", description |-> "Internationalization"] >>

\* A variant of MILESTONES whose first title is written differently from the issues' references.
MILESTONES_retitled ==
  << [title |-> "v0.2.0 - Foundations",
      description |-> "Foundation and Infrastructure + PWA", due_on |-> "None"],
     [title |-> "v0.3.0 - Core Features",
      description |-> "Core Feature Enhancements + Settings", due_on |-> "None"],
     [title |-> "v0.4.0 - Cloud & Analytics",
      description |-> "Cloud Sync + Analytics and Reporting", due_on |-> "None"],
     [title |-> "v1.0.0 - Production Release",
      description |-> "Polish and Production Release", due_on |-> "None"] >>

\* MILESTONES (src lines 32-37): due_on is None in every record; None is the string "None".
MILESTONES ==
  << [title |-> "v0.2.0 - Foundation",
      description |-> "Foundation and Infrastructure + PWA", due_on |-> "None"],
     [title |-> "v0.3.0 - Core Features",
      description |-> "Core Feature Enhancements + Settings", due_on |-> "None"],
     [title |-> "v0.4.0 - Cloud & Analytics",
      description |-> "Cloud Sync + Analytics and Reporting", due_on |-> "None"],
     [title |-> "v1.0.0 - Production Release",
      description |-> "Polish and Production Release", due_on |-> "None"] >>

\* ISSUES (src lines 40-963). A body is a long markdown text that the program only
\* passes through as one argument; it is abbreviated to the first line of its
\* Description section. Every other field is verbatim.
ISSUES ==
  << [title |-> "Epic 1: Foundation and Infrastructure",
      body |-> "Establish the technical foundation for a production-ready ap",
      labels |-> << "epic", "P0-critical", "backend", "infrastructure" >>,
      milestone |-> "v0.2.0 - Foundation"],
     [title |-> "Migrate from LocalStorage to IndexedDB",
      body |-> "Replace LocalStorage with IndexedDB for more robust data per",
      labels |-> << "story", "P0-critical", "backend" >>,
      milestone |-> "v0.2.0 - Foundation"],
     [title |-> "Integrate React Query",
      body |-> "Set up React Query for data fetching, caching, and synchroni",
      labels |-> << "story", "P0-critical", "backend" >>,
      milestone |-> "v0.2.0 - Foundation"],
     [title |-> "Set Up Testing Infrastructure",
      body |-> "Establish testing framework and create initial test suite fo",
      labels |-> << "story", "P0-critical", "testing" >>,
      milestone |-> "v0.2.0 - Foundation"],
     [title |-> "Configure GitHub Actions CI/CD",
      body |-> "Set up automated testing and deployment pipeline.",
      labels |-> << "story", "P0-critical", "infrastructure" >>,
      milestone |-> "v0.2.0 - Foundation"],
     [title |-> "Epic 2: PWA and Offline Functionality",
      body |-> "Complete PWA implementation for installable, offline-capable",
      labels |-> << "epic", "P0-critical", "pwa" >>,
      milestone |-> "v0.2.0 - Foundation"],
     [title |-> "Complete PWA Configuration",
      body |-> "Finalize PWA manifest and service worker for app installatio",
      labels |-> << "story", "P0-critical", "pwa" >>,
      milestone |-> "v0.2.0 - Foundation"],
     [title |-> "Add Offline Status Indicator",
      body |-> "Show users their online/offline status and sync state.",
      labels |-> << "story", "P0-critical", "pwa", "frontend" >>,
      milestone |-> "v0.2.0 - Foundation"],
     [title |-> "Epic 3: Core Feature Enhancements",
      body |-> "Enhance existing features and add commonly requested functio",
      labels |-> << "epic", "P1-high", "frontend", "backend" >>,
      milestone |-> "v0.3.0 - Core Features"],
     [title |-> "Add Date Range Filtering",
      body |-> "Allow users to view entries and statistics for custom date r",
      labels |-> << "story", "P1-high", "frontend" >>,
      milestone |-> "v0.3.0 - Core Features"],
     [title |-> "Add Categories for Donations",
      body |-> "Allow users to categorize donations by recipient type (synag",
      labels |-> << "story", "P1-high", "frontend", "backend" >>,
      milestone |-> "v0.3.0 - Core Features"],
     [title |-> "Add Recurring Income Support",
      body |-> "Allow users to set up recurring income entries that automati",
      labels |-> << "story", "P1-high", "frontend", "backend" >>,
      milestone |-> "v0.3.0 - Core Features"],
     [title |-> "Multi-Currency Support",
      body |-> "Allow users to enter income and donations in multiple curren",
      labels |-> << "story", "P1-high", "frontend", "backend", "i18n" >>,
      milestone |-> "v0.3.0 - Core Features"],
     [title |-> "Epic 4: User Preferences and Settings",
      body |-> "Add settings screen and user preferences persistence.",
      labels |-> << "epic", "P1-high", "frontend" >>,
      milestone |-> "v0.3.0 - Core Features"],
     [title |-> "Create Settings Screen",
      body |-> "Add a settings page for user preferences.",
      labels |-> << "story", "P1-high", "frontend" >>,
      milestone |-> "v0.3.0 - Core Features"],
     [title |-> "Add Data Export/Import",
      body |-> "Allow users to export and import their data for backup and t",
      labels |-> << "story", "P1-high", "backend" >>,
      milestone |-> "v0.3.0 - Core Features"],
     [title |-> "Epic 5: Cloud Sync with Google",
      body |-> "Optional Google authentication and cloud backup/sync.",
      labels |-> << "epic", "P2-medium", "backend" >>,
      milestone |-> "v0.4.0 - Cloud & Analytics"],
     [title |-> "Implement Google OAuth",
      body |-> "Add Google sign-in for cloud features.",
      labels |-> << "story", "P2-medium", "backend" >>,
      milestone |-> "v0.4.0 - Cloud & Analytics"],
     [title |-> "Google Sheets Sync",
      body |-> "Sync data to Google Sheets for backup and advanced analysis.",
      labels |-> << "story", "P2-medium", "backend" >>,
      milestone |-> "v0.4.0 - Cloud & Analytics"],
     [title |-> "Epic 6: Analytics and Reporting",
      body |-> "Add comprehensive reporting and analytics features.",
      labels |-> << "epic", "P2-medium", "frontend" >>,
      milestone |-> "v0.4.0 - Cloud & Analytics"],
     [title |-> "Monthly/Yearly Reports",
      body |-> "Generate summary reports for different time periods.",
      labels |-> << "story", "P2-medium", "frontend" >>,
      milestone |-> "v0.4.0 - Cloud & Analytics"],
     [title |-> "Tax Report Generation",
      body |-> "Generate reports suitable for tax deduction documentation.",
      labels |-> << "story", "P2-medium", "frontend" >>,
      milestone |-> "v0.4.0 - Cloud & Analytics"],
     [title |-> "Epic 7: Polish and UX Improvements",
      body |-> "UI/UX refinements and accessibility improvements.",
      labels |-> << "epic", "P3-low", "frontend" >>,
      milestone |-> "v1.0.0 - Production Release"],
     [title |-> "Improve Accessibility",
      body |-> "Ensure app meets WCAG 2.1 AA standards.",
      labels |-> << "story", "P3-low", "frontend" >>,
      milestone |-> "v1.0.0 - Production Release"],
     [title |-> "Add Animations and Transitions",
      body |-> "Subtle animations to improve perceived performance and UX.",
      labels |-> << "story", "P3-low", "frontend" >>,
      milestone |-> "v1.0.0 - Production Release"],
     [title |-> "Haptic Feedback (Mobile)",
      body |-> "Add vibration feedback for actions on mobile.",
      labels |-> << "story", "P3-low", "frontend" >>,
      milestone |-> "v1.0.0 - Production Release"] >>

(***************************************************************************)
(* Bounds. A run iterates over the first NumLabels records of LABELS, the  *)
(* first NumMilestones records of MILESTONES and NumIssues consecutive     *)
(* records of ISSUES that start at one of the first MaxFirst records.      *)
(***************************************************************************)
NumLabels == 2
NumMilestones == 2
NumIssues == 2
MaxFirst == 8

\* Standard outputs of gh, as the characters written.
OutEmpty ==
  << >>

OutNewline ==
  << "\n" >>

OutMilestone7 ==
  << "{", "\"", "n", "u", "m", "b", "e", "r", "\"", ":", " ", "7", "}", "\n" >>

OutMilestone5 ==
  << "{", "\"", "u", "r", "l", "\"", ":", " ", "1", ",", " ", "\"", "n", "u", "m", "b", "e",
     "r", "\"", ":", " ", "5", ",", " ", "\"", "i", "d", "\"", ":", " ", "9", "}", "\n" >>

OutMilestoneNoNumber ==
  << "{", "\"", "i", "d", "\"", ":", " ", "9", "}", "\n" >>

OutNotJson ==
  << "N", "o", "t", " ", "F", "o", "u", "n", "d", "\n" >>

OutIssue42 ==
  << "h", "t", "t", "p", "s", ":", "/", "/", "g", "i", "t", "h", "u", "b", ".", "c", "o",
     "m", "/", "D", "u", "b", "i", "W", "o", "r", "k", "/", "m", "a", "a", "s", "e", "r",
     "-", "t", "r", "a", "c", "k", "e", "r", "/", "i", "s", "s", "u", "e", "s", "/", "4",
     "2", "\n" >>

(***************************************************************************)
(* Python values and the text functions the program calls.                 *)
(***************************************************************************)

\* None, and a str value: what run_gh_command returns.
None == [is_none |-> TRUE, text |-> << >>]

Some(s) == [is_none |-> FALSE, text |-> s]

\* bool(result): None and the empty str are false, every other str is true.
Truthy(result) == ~result.is_none /\ result.text # << >>

\* A dict as a function of its keys; {} and d[k] = v.
EmptyDict == [k \in {} |-> 0]

DictSet(d, key, v) == [k \in DOMAIN d \cup {key} |-> IF k = key THEN v ELSE d[k]]

\* len(d) of a dict.
DictLen(d) == Cardinality(DOMAIN d)

\* The characters str.strip() removes.
Whitespace == {" ", "\t", "\n", "\r", "\f"}

RECURSIVE lstrip(_)
lstrip(s) == IF s # << >> /\ Head(s) \in Whitespace THEN lstrip(Tail(s)) ELSE s

RECURSIVE rstrip(_)
rstrip(s) ==
  IF s # << >> /\ s[Len(s)] \in Whitespace THEN rstrip(SubSeq(s, 1, Len(s) - 1)) ELSE s

\* str.strip()
strip(s) == rstrip(lstrip(s))

\* str.split(sep) for a one-character separator: the list of the segments.
RECURSIVE split(_, _)
split(s, sep) ==
  IF \E k \in 1..Len(s) : s[k] = sep
    THEN LET k == CHOOSE j \in 1..Len(s) : s[j] = sep /\ \A h \in 1..(j - 1) : s[h] # sep
         IN  << SubSeq(s, 1, k - 1) >> \o split(SubSeq(s, k + 1, Len(s)), sep)
    ELSE << s >>

\* xs[-1]
Last(xs) == xs[Len(xs)]

\* A variant of join that writes a space after every separator.
RECURSIVE join_spaced(_, _)
join_spaced(sep, items) ==
  IF items = << >> THEN ""
  ELSE IF Len(items) = 1 THEN items[1]
  ELSE items[1] \o sep \o " " \o join_spaced(sep, Tail(items))

\* sep.join(items), items a list of str
RECURSIVE join(_, _)
join(sep, items) ==
  IF items = << >> THEN ""
  ELSE IF Len(items) = 1 THEN items[1]
  ELSE items[1] \o sep \o join(sep, Tail(items))

\* The characters of a text as one string.
RECURSIVE Concat(_)
Concat(s) == IF s = << >> THEN "" ELSE Head(s) \o Concat(Tail(s))

DigitChars == << "0", "1", "2", "3", "4", "5", "6", "7", "8", "9" >>

\* str(n) of an int
RECURSIVE str(_)
str(n) ==
  IF n < 0 THEN "-" \o str(0 - n)
  ELSE IF n < 10 THEN DigitChars[n + 1]
  ELSE str(n \div 10) \o DigitChars[(n % 10) + 1]

(***************************************************************************)
(* json.loads, for the texts a flat JSON object of integers is written in: *)
(*   ws { ws "key" ws : ws int ws , ... } ws                               *)
(* with no escape in a key. A text outside this form raises                *)
(* JSONDecodeError (ok = FALSE). A key given twice keeps its last value.   *)
(***************************************************************************)
JsonWs == {" ", "\t", "\n", "\r"}

IsDigit(c) == \E d \in 1..10 : DigitChars[d] = c

DigitVal(c) == (CHOOSE d \in 1..10 : DigitChars[d] = c) - 1

At(s, p) == IF p >= 1 /\ p <= Len(s) THEN s[p] ELSE "EOF"

RECURSIVE SkipWs(_, _)
SkipWs(s, p) == IF At(s, p) \in JsonWs THEN SkipWs(s, p + 1) ELSE p

\* The position of the quote that closes the string whose first character is at p; 0 if none.
RECURSIVE ScanString(_, _)
ScanString(s, p) ==
  IF p > Len(s) \/ s[p] \in {"\\", "\n", "\t", "\r"} THEN 0
  ELSE IF s[p] = "\"" THEN p
  ELSE ScanString(s, p + 1)

RECURSIVE ScanDigits(_, _, _)
ScanDigits(s, p, acc) ==
  IF IsDigit(At(s, p)) THEN ScanDigits(s, p + 1, acc * 10 + DigitVal(s[p]))
  ELSE [val |-> acc, next |-> p]

JsonError == [ok |-> FALSE, data |-> EmptyDict, next |-> 0]

\* An int at p: an optional minus sign, then digits with no leading zero.
ParseInt(s, p) ==
  LET neg == At(s, p) = "-"
      first == IF neg THEN p + 1 ELSE p
      d == ScanDigits(s, first, 0)
  IN  IF d.next = first \/ (At(s, first) = "0" /\ d.next > first + 1)
           \/ At(s, d.next) \in {".", "e", "E"}
        THEN [ok |-> FALSE, val |-> 0, next |-> 0]
        ELSE [ok |-> TRUE, val |-> IF neg THEN 0 - d.val ELSE d.val, next |-> d.next]

\* The members of an object from p, the position of the opening quote of a key.
RECURSIVE ParseMembers(_, _, _)
ParseMembers(s, p, acc) ==
  IF At(s, p) # "\"" THEN JsonError
  ELSE LET q == ScanString(s, p + 1)
       IN  IF q = 0 THEN JsonError
           ELSE LET key == Concat(SubSeq(s, p + 1, q - 1))
                    c == SkipWs(s, q + 1)
                IN  IF At(s, c) # ":" THEN JsonError
                    ELSE LET v == ParseInt(s, SkipWs(s, c + 1))
                         IN  IF ~v.ok THEN JsonError
                             ELSE LET n == SkipWs(s, v.next)
                                      d == DictSet(acc, key, v.val)
                                  IN  IF At(s, n) = "," THEN ParseMembers(s, SkipWs(s, n + 1), d)
                                      ELSE IF At(s, n) = "}"
                                        THEN [ok |-> TRUE, data |-> d, next |-> n + 1]
                                      ELSE JsonError

json_loads(s) ==
  LET p == SkipWs(s, 1)
  IN  IF At(s, p) # "{" THEN JsonError
      ELSE LET m == SkipWs(s, p + 1)
               obj == IF At(s, m) = "}"
                        THEN [ok |-> TRUE, data |-> EmptyDict, next |-> m + 1]
                        ELSE ParseMembers(s, m, EmptyDict)
           IN  IF obj.ok /\ SkipWs(s, obj.next) = Len(s) + 1 THEN obj ELSE JsonError

(***************************************************************************)
(* The environment: what a gh process can end with. A CompletedProcess is  *)
(* [returncode, stdout, stderr]; gh exits 0 on success, and gh api writes  *)
(* the response body to its standard output also when the request failed.  *)
(***************************************************************************)
CompletedProcess(rc, so, se) == [returncode |-> rc, stdout |-> so, stderr |-> se]

LabelProcs ==
  { CompletedProcess(0, OutEmpty, ""),
    CompletedProcess(0, OutNewline, ""),
    CompletedProcess(4, OutEmpty, "gh auth login required") }

MilestoneProcs ==
  { CompletedProcess(0, OutMilestone7, ""),
    CompletedProcess(0, OutMilestone5, ""),
    CompletedProcess(0, OutNewline, ""),
    CompletedProcess(0, OutNotJson, ""),
    CompletedProcess(0, OutMilestoneNoNumber, ""),
    CompletedProcess(1, OutMilestone7, "gh: Validation Failed (HTTP 422)") }

IssueProcs ==
  { CompletedProcess(0, OutIssue42, ""),
    CompletedProcess(0, OutNewline, ""),
    CompletedProcess(1, OutIssue42, "could not add label: not found") }

(***************************************************************************)
(* The state of a run.                                                     *)
(***************************************************************************)
VARIABLES
  labels,            \* the module-level list the label loop iterates over
  milestones,        \* the module-level list the milestone loop iterates over
  issues,            \* the module-level list the issue loop iterates over
  pc,                \* where main() is
  i,                 \* the position of the current loop in its list
  calls,             \* the argument lists of the processes spawned so far
  returncodes,       \* the exit codes of the processes that have exited, in order
  running,           \* the processes (positions in calls) spawned and not yet exited
  milestone_numbers, \* dict: milestone title -> number
  issue_numbers,     \* dict: issue title -> issue number text
  out,               \* the lines printed to sys.stdout
  err,               \* the lines printed to sys.stderr
  completed,         \* the CompletedProcess of the process that exited last
  result,            \* the value run_gh_command returned last
  exit_status        \* "running", then "success" (exit 0) or "error" (uncaught exception)

vars ==
  << labels, milestones, issues, pc, i, calls, returncodes, running,
     milestone_numbers, issue_numbers, out, err, completed, result, exit_status >>

data == << labels, milestones, issues >>

Init ==
  /\ labels = SubSeq(LABELS, 1, NumLabels)
  /\ milestones = SubSeq(MILESTONES, 1, NumMilestones)
  /\ \E first \in 1..MaxFirst : issues = SubSeq(ISSUES, first, first + NumIssues - 1)
  /\ pc = "main"
  /\ i = 0
  /\ calls = << >>
  /\ returncodes = << >>
  /\ running = {}
  /\ milestone_numbers = EmptyDict
  /\ issue_numbers = EmptyDict
  /\ out = << >>
  /\ err = << >>
  /\ completed = CompletedProcess(0, << >>, "")
  /\ result = None
  /\ exit_status = "running"

(***************************************************************************)
(* run_gh_command. Spawn is subprocess.run starting the process; Exit is   *)
(* the process ending with p; run_gh_command(p) is the value returned and  *)
(* ErrAfter(p) the standard error stream after the except clause.          *)
(***************************************************************************)
Spawn(args) ==
  /\ calls' = Append(calls, << "gh" >> \o args)
  /\ running' = running \cup {Len(calls) + 1}

\* A variant of Exit that returns without the process being counted as exited.
Exit_not_awaited(p) ==
  /\ returncodes' = Append(returncodes, p.returncode)
  /\ running' = running
  /\ completed' = p

Exit(p) ==
  /\ returncodes' = Append(returncodes, p.returncode)
  /\ running' = running \ {Len(returncodes) + 1}
  /\ completed' = p

\* check=True raises CalledProcessError when the exit code is not 0.
Raises(p) == p.returncode # 0

\* A variant of run_gh_command that returns the standard output as written.
run_gh_command_unstripped(p) == IF Raises(p) THEN None ELSE Some(p.stdout)

run_gh_command(p) == IF Raises(p) THEN None ELSE Some(strip(p.stdout))

ErrAfter(p) ==
  IF Raises(p)
    THEN Append(err, [text |-> "Error running gh command: ", stderr |-> p.stderr])
    ELSE err

\* An exception nothing catches: the traceback is printed and the process exits 1.
Uncaught(exception, stream) ==
  /\ err' = Append(stream, [text |-> "Traceback (most recent call last)", exception |-> exception])
  /\ pc' = "raised"
  /\ exit_status' = "error"

(***************************************************************************)
(* create_labels                                                           *)
(***************************************************************************)
LabelArgs(label) ==
  << "label", "create", label.name, "--color", label.color,
     "--description", label.description, "--repo", OWNER \o "/" \o REPO, "--force" >>

\* A variant of LabelPrinted that tests the truth of the result.
LabelPrinted_truthy(r) == Truthy(r)

\* `if result is not None`
LabelPrinted(r) == ~r.is_none

create_labels_begin ==
  /\ pc = "create_labels"
  /\ out' = Append(out, [text |-> "Creating labels..."])
  /\ i' = 1
  /\ pc' = "labels_loop"
  /\ UNCHANGED << data, calls, returncodes, running, milestone_numbers, issue_numbers,
                  err, exit_status, completed, result >>

create_labels_call ==
  /\ pc = "labels_loop"
  /\ i <= Len(labels)
  /\ Spawn(LabelArgs(labels[i]))
  /\ pc' = "labels_wait"
  /\ UNCHANGED << data, i, returncodes, milestone_numbers, issue_numbers, out, err,
                  exit_status, completed, result >>

create_labels_return ==
  /\ pc = "labels_wait"
  /\ \E p \in LabelProcs :
       LET ret == run_gh_command(p)
       IN  /\ Exit(p)
           /\ result' = ret
           /\ err' = ErrAfter(p)
           /\ out' = IF LabelPrinted(ret)
                       THEN Append(out, [text |-> "Created label: ", name |-> labels[i].name])
                       ELSE out
  /\ i' = i + 1
  /\ pc' = "labels_loop"
  /\ UNCHANGED << data, calls, milestone_numbers, issue_numbers, exit_status >>

\* A variant of create_labels_end that leaves the loop one record early.
create_labels_end_early ==
  /\ pc = "labels_loop"
  /\ i >= Len(labels)
  /\ pc' = "create_milestones"
  /\ UNCHANGED << data, i, calls, returncodes, running, milestone_numbers, issue_numbers,
                  out, err, exit_status, completed, result >>

create_labels_end ==
  /\ pc = "labels_loop"
  /\ i > Len(labels)
  /\ pc' = "create_milestones"
  /\ UNCHANGED << data, i, calls, returncodes, running, milestone_numbers, issue_numbers,
                  out, err, exit_status, completed, result >>

(***************************************************************************)
(* create_milestones                                                       *)
(***************************************************************************)
MilestoneArgs(milestone) ==
  << "api", "/repos/" \o OWNER \o "/" \o REPO \o "/milestones",
     "-f", "title=" \o milestone.title,
     "-f", "description=" \o milestone.description,
     "-f", "state=open" >>

create_milestones_begin ==
  /\ pc = "create_milestones"
  /\ out' = Append(out, [text |-> "Creating milestones..."])
  /\ milestone_numbers' = EmptyDict
  /\ i' = 1
  /\ pc' = "milestones_loop"
  /\ UNCHANGED << data, calls, returncodes, running, issue_numbers, err, exit_status,
                  completed, result >>

create_milestones_call ==
  /\ pc = "milestones_loop"
  /\ i <= Len(milestones)
  /\ Spawn(MilestoneArgs(milestones[i]))
  /\ pc' = "milestones_wait"
  /\ UNCHANGED << data, i, returncodes, milestone_numbers, issue_numbers, out, err,
                  exit_status, completed, result >>

\* A variant of MilestoneData that reads the "id" field.
MilestoneData_id(r) ==
  LET parsed == json_loads(r.text)
  IN  IF ~parsed.ok THEN [raises |-> "JSONDecodeError", number |-> 0]
      ELSE IF "id" \notin DOMAIN parsed.data THEN [raises |-> "KeyError", number |-> 0]
      ELSE [raises |-> "", number |-> parsed.data["id"]]

\* What the body of `if result:` does with a true result: the exception it raises
\* ("" if none) and the number it reads.
MilestoneData(r) ==
  LET parsed == json_loads(r.text)
  IN  IF ~parsed.ok THEN [raises |-> "JSONDecodeError", number |-> 0]
      ELSE IF "number" \notin DOMAIN parsed.data THEN [raises |-> "KeyError", number |-> 0]
      ELSE [raises |-> "", number |-> parsed.data["number"]]

\* A variant of MilestoneRecorded that tests `is not None`.
MilestoneRecorded_not_none(r) == ~r.is_none

\* `if result:`
MilestoneRecorded(r) == Truthy(r)

create_milestones_return ==
  /\ pc = "milestones_wait"
  /\ \E p \in MilestoneProcs :
       LET ret == run_gh_command(p)
           title == milestones[i].title
       IN  /\ Exit(p)
           /\ result' = ret
           /\ IF MilestoneRecorded(ret)
                THEN LET d == MilestoneData(ret)
                     IN  IF d.raises # ""
                           THEN /\ Uncaught(d.raises, ErrAfter(p))
                                /\ UNCHANGED << i, milestone_numbers, out >>
                           ELSE /\ milestone_numbers' = DictSet(milestone_numbers, title, d.number)
                                /\ out' = Append(out, [text |-> "Created milestone: ",
                                                       title |-> title, number |-> d.number])
                                /\ err' = ErrAfter(p)
                                /\ i' = i + 1
                                /\ pc' = "milestones_loop"
                                /\ UNCHANGED exit_status
                ELSE /\ err' = ErrAfter(p)
                     /\ i' = i + 1
                     /\ pc' = "milestones_loop"
                     /\ UNCHANGED << milestone_numbers, out, exit_status >>
  /\ UNCHANGED << data, calls, issue_numbers >>

create_milestones_end ==
  /\ pc = "milestones_loop"
  /\ i > Len(milestones)
  /\ pc' = "create_issues"
  /\ UNCHANGED << data, i, calls, returncodes, running, milestone_numbers, issue_numbers,
                  out, err, exit_status, completed, result >>

(***************************************************************************)
(* create_issues                                                           *)
(***************************************************************************)
\* A variant of milestone_arg that falls back to the title when no number is known.
milestone_arg_fallback(issue, numbers) ==
  IF "milestone" \in DOMAIN issue
    THEN << "--milestone", IF issue.milestone \in DOMAIN numbers
                             THEN str(numbers[issue.milestone])
                             ELSE issue.milestone >>
    ELSE << >>

\* A variant of milestone_arg that passes the number of the first milestone recorded.
milestone_arg_first(issue, numbers) ==
  IF "milestone" \in DOMAIN issue /\ issue.milestone \in DOMAIN numbers
    THEN << "--milestone", str(numbers[CHOOSE t \in DOMAIN numbers : TRUE]) >>
    ELSE << >>

milestone_arg(issue, numbers) ==
  IF "milestone" \in DOMAIN issue /\ issue.milestone \in DOMAIN numbers
    THEN << "--milestone", str(numbers[issue.milestone]) >>
    ELSE << >>

IssueArgs(issue, numbers) ==
  << "issue", "create", "--title", issue.title, "--body", issue.body,
     "--label", join(",", issue.labels), "--repo", OWNER \o "/" \o REPO >>
  \o milestone_arg(issue, numbers)

\* A variant of issue_number that keeps the whole output.
issue_number_whole(r) == r.text

\* result.split('/')[-1]
issue_number(r) == Last(split(r.text, "/"))

\* A variant of IssueRecorded that tests `is not None`.
IssueRecorded_not_none(r) == ~r.is_none

\* `if result:`
IssueRecorded(r) == Truthy(r)

create_issues_begin ==
  /\ pc = "create_issues"
  /\ out' = Append(out, [text |-> "Creating issues..."])
  /\ issue_numbers' = EmptyDict
  /\ i' = 1
  /\ pc' = "issues_loop"
  /\ UNCHANGED << data, calls, returncodes, running, milestone_numbers, err, exit_status,
                  completed, result >>

create_issues_call ==
  /\ pc = "issues_loop"
  /\ i <= Len(issues)
  /\ Spawn(IssueArgs(issues[i], milestone_numbers))
  /\ pc' = "issues_wait"
  /\ UNCHANGED << data, i, returncodes, milestone_numbers, issue_numbers, out, err,
                  exit_status, completed, result >>

\* A variant of create_issues_return that stores the issue number in milestone_numbers.
create_issues_return_wrong_dict ==
  /\ pc = "issues_wait"
  /\ \E p \in IssueProcs :
       LET ret == run_gh_command(p)
           title == issues[i].title
       IN  /\ Exit(p)
           /\ result' = ret
           /\ err' = ErrAfter(p)
           /\ IF IssueRecorded(ret)
                THEN /\ milestone_numbers' = DictSet(milestone_numbers, title, 0)
                     /\ out' = Append(out, [text |-> "Created issue #", title |-> title,
                                            issue_number |-> issue_number(ret)])
                ELSE UNCHANGED << milestone_numbers, out >>
  /\ i' = i + 1
  /\ pc' = "issues_loop"
  /\ UNCHANGED << data, calls, issue_numbers, exit_status >>

create_issues_return ==
  /\ pc = "issues_wait"
  /\ \E p \in IssueProcs :
       LET ret == run_gh_command(p)
           title == issues[i].title
       IN  /\ Exit(p)
           /\ result' = ret
           /\ err' = ErrAfter(p)
           /\ IF IssueRecorded(ret)
                THEN /\ issue_numbers' = DictSet(issue_numbers, title, issue_number(ret))
                     /\ out' = Append(out, [text |-> "Created issue #", title |-> title,
                                            issue_number |-> issue_number(ret)])
                ELSE UNCHANGED << issue_numbers, out >>
  /\ i' = i + 1
  /\ pc' = "issues_loop"
  /\ UNCHANGED << data, calls, milestone_numbers, exit_status >>

create_issues_end ==
  /\ pc = "issues_loop"
  /\ i > Len(issues)
  /\ pc' = "summary"
  /\ UNCHANGED << data, i, calls, returncodes, running, milestone_numbers, issue_numbers,
                  out, err, exit_status, completed, result >>

(***************************************************************************)
(* main                                                                    *)
(***************************************************************************)
main_begin ==
  /\ pc = "main"
  /\ out' = Append(out, [text |-> "Setting up GitHub issues for " \o OWNER \o "/" \o REPO])
  /\ pc' = "create_labels"
  /\ UNCHANGED << data, i, calls, returncodes, running, milestone_numbers, issue_numbers,
                  err, exit_status, completed, result >>

\* A variant of SummaryLines that counts the issues declared.
SummaryLines_declared ==
  << [text |-> "Setup complete!"],
     [text |-> "Created labels", count |-> Len(labels)],
     [text |-> "Created milestones", count |-> Len(milestones)],
     [text |-> "Created issues", count |-> Len(issues)],
     [text |-> "View at: https://github.com/" \o OWNER \o "/" \o REPO \o "/issues"] >>

SummaryLines ==
  << [text |-> "Setup complete!"],
     [text |-> "Created labels", count |-> Len(labels)],
     [text |-> "Created milestones", count |-> Len(milestones)],
     [text |-> "Created issues", count |-> DictLen(issue_numbers)],
     [text |-> "View at: https://github.com/" \o OWNER \o "/" \o REPO \o "/issues"] >>

main_summary ==
  /\ pc = "summary"
  /\ out' = out \o SummaryLines
  /\ pc' = "done"
  /\ exit_status' = "success"
  /\ UNCHANGED << data, i, calls, returncodes, running, milestone_numbers, issue_numbers,
                  err, completed, result >>

Next ==
  \/ main_begin
  \/ create_labels_begin
  \/ create_labels_call
  \/ create_labels_return
  \/ create_labels_end
  \/ create_milestones_begin
  \/ create_milestones_call
  \/ create_milestones_return
  \/ create_milestones_end
  \/ create_issues_begin
  \/ create_issues_call
  \/ create_issues_return
  \/ create_issues_end
  \/ main_summary

Spec == Init /\ [][Next]_vars

(***************************************************************************)
(* create_issues over a list that may repeat a record. ISSUES itself has   *)
(* no two records with one title; what the dict keyed by title does with a *)
(* repeated title shows only on such a list. The run is the same program:  *)
(* the issues list is drawn from the lists of NumIssues records taken      *)
(* among the first two records of ISSUES, repetition allowed.              *)
(***************************************************************************)
InitAnyIssues ==
  /\ labels = SubSeq(LABELS, 1, NumLabels)
  /\ milestones = SubSeq(MILESTONES, 1, NumMilestones)
  /\ issues \in [1..NumIssues -> {ISSUES[1], ISSUES[2]}]
  /\ pc = "main"
  /\ i = 0
  /\ calls = << >>
  /\ returncodes = << >>
  /\ running = {}
  /\ milestone_numbers = EmptyDict
  /\ issue_numbers = EmptyDict
  /\ out = << >>
  /\ err = << >>
  /\ completed = CompletedProcess(0, << >>, "")
  /\ result = None
  /\ exit_status = "running"

SpecAnyIssues == InitAnyIssues /\ [][Next]_vars

(***************************************************************************)
(* Properties.                                                             *)
(*                                                                         *)
(* The processes are numbered in the order they are spawned; a process has *)
(* exited when its number is at most Len(returncodes). calls[c][1] is "gh" *)
(* and calls[c][2] the gh subcommand: "label", "api" (a milestone) or      *)
(* "issue".                                                                *)
(***************************************************************************)
LabelCalls == {c \in 1..Len(calls) : calls[c][2] = "label"}

MilestoneCalls == {c \in 1..Len(calls) : calls[c][2] = "api"}

IssueCalls == {c \in 1..Len(calls) : calls[c][2] = "issue"}

Exited(c) == c <= Len(returncodes)

\* The record a process was spawned for, read off its argument list.
RecordOf(call) ==
  IF call[2] = "label" THEN << "label", call[4] >>
  ELSE IF call[2] = "api" THEN << "milestone", call[5] >>
  ELSE << "issue", call[5] >>

Invocations == [c \in 1..Len(calls) |-> RecordOf(calls[c])]

\* One invocation per record, labels then milestones then issues, in declaration order.
Expected ==
  [k \in 1..Len(labels) |-> << "label", labels[k].name >>]
  \o [k \in 1..Len(milestones) |-> << "milestone", "title=" \o milestones[k].title >>]
  \o [k \in 1..Len(issues) |-> << "issue", issues[k].title >>]

IsPrefix(s, t) == Len(s) <= Len(t) /\ s = SubSeq(t, 1, Len(s))

\* The positions in calls of the process of the k-th milestone and of the j-th issue.
MilestoneCall(k) == Len(labels) + k

IssueCall(j) == Len(labels) + Len(milestones) + j

HasMilestoneArg(call) == \E k \in 1..Len(call) : call[k] = "--milestone"

MilestoneArgValue(call) == call[(CHOOSE k \in 1..Len(call) : call[k] = "--milestone") + 1]

Ended == exit_status # "running"

InIssuePhase == pc \in {"create_issues", "issues_loop", "issues_wait"}

\* C1 (as claimed): the invocations made are at every moment the first ones of the
\* expected list (one per record, in declaration order, none skipped, repeated or
\* retried), and a run of main() that has ended has made one for every record.
C1_AsClaimed ==
  /\ IsPrefix(Invocations, Expected)
  /\ Ended => Invocations = Expected

\* C2: a milestone whose process failed has no entry in milestone_numbers; once
\* create_milestones has returned the run is never halted or aborted, every issue that
\* names the title is invoked, and its argument list has no --milestone.
C2_FailedMilestoneOmitted ==
  \A k \in 1..Len(milestones) :
    (Exited(MilestoneCall(k)) /\ returncodes[MilestoneCall(k)] # 0) =>
      /\ milestones[k].title \notin DOMAIN milestone_numbers
      /\ InIssuePhase => ENABLED Next
      /\ IssueCalls # {} => exit_status # "error"
      /\ \A j \in 1..Len(issues) :
           issues[j].milestone = milestones[k].title =>
             /\ IssueCall(j) <= Len(calls) =>
                  /\ RecordOf(calls[IssueCall(j)]) = << "issue", issues[j].title >>
                  /\ ~HasMilestoneArg(calls[IssueCall(j)])
             /\ pc \in {"summary", "done"} => Exited(IssueCall(j))

\* C2 witness: the run is over, the first milestone failed, and an issue that names it
\* was invoked.
C2_Witness ==
  /\ pc = "done"
  /\ returncodes[MilestoneCall(1)] # 0
  /\ issues[1].milestone = milestones[1].title
  /\ Len(calls[IssueCall(1)]) = 11

\* C3 (as claimed): whatever the processes exit with and write, the run is not aborted.
C3_AsClaimed == exit_status # "error"

\* C4: when a milestone process exists, every label record has its process and all of
\* them have exited; when an issue process exists, every milestone record has its
\* process and all of them have exited; label processes come before milestone
\* processes, which come before issue processes.
C4_PhasesInOrder ==
  /\ MilestoneCalls # {} =>
       /\ Cardinality(LabelCalls) = Len(labels)
       /\ \A a \in LabelCalls : Exited(a) /\ \A b \in MilestoneCalls : a < b
  /\ IssueCalls # {} =>
       /\ Cardinality(LabelCalls) = Len(labels)
       /\ Cardinality(MilestoneCalls) = Len(milestones)
       /\ \A b \in MilestoneCalls : Exited(b) /\ \A c \in IssueCalls : b < c
       /\ \A a \in LabelCalls : Exited(a) /\ \A c \in IssueCalls : a < c

\* C4 witness: the first issue process is outstanding after a label and a milestone failed.
C4_Witness ==
  /\ pc = "issues_wait"
  /\ Cardinality(IssueCalls) = 1
  /\ \E a \in LabelCalls : returncodes[a] # 0
  /\ \E b \in MilestoneCalls : returncodes[b] # 0

\* C5: the process of an issue has a --milestone argument exactly when the record has
\* a milestone that is a key of milestone_numbers; the value is then the number
\* recorded for that title, in decimal; with or without it the issue is invoked and
\* the run is not aborted.
C5_MilestoneArgIff ==
  \A j \in 1..Len(issues) :
    IssueCall(j) <= Len(calls) =>
      LET call == calls[IssueCall(j)]
          known == "milestone" \in DOMAIN issues[j]
                     /\ issues[j].milestone \in DOMAIN milestone_numbers
      IN  /\ RecordOf(call) = << "issue", issues[j].title >>
          /\ HasMilestoneArg(call) <=> known
          /\ known => MilestoneArgValue(call) = str(milestone_numbers[issues[j].milestone])
          /\ Len(call) = IF known THEN 13 ELSE 11
          /\ exit_status # "error"

\* C5 witness: one issue was invoked with --milestone 5 and another without --milestone.
C5_Witness ==
  /\ pc = "done"
  /\ \E c \in IssueCalls : HasMilestoneArg(calls[c]) /\ MilestoneArgValue(calls[c]) = "5"
  /\ \E c \in IssueCalls : ~HasMilestoneArg(calls[c])

\* The record a loop has just finished: the loop is back at its head after record i - 1.
JustReturned(loop) == pc = loop /\ i > 1 /\ Len(returncodes) = Len(calls)

\* C6 (as claimed): every milestone whose process succeeded has an entry in
\* milestone_numbers.
C6_AsClaimed ==
  \A k \in 1..Len(milestones) :
    (Exited(MilestoneCall(k)) /\ returncodes[MilestoneCall(k)] = 0) =>
      milestones[k].title \in DOMAIN milestone_numbers

\* C6 (amended): a milestone whose process succeeded with an output that is, once
\* trimmed, a non-empty JSON object with a "number" field has the entry
\* title -> that number, and the confirmation printed last carries the title and the
\* number; output {"number": 7} records 7. A milestone whose process succeeded with an
\* empty output gets no entry and no confirmation.
C6_MilestoneRecorded ==
  JustReturned("milestones_loop") /\ completed.returncode = 0 =>
    LET title == milestones[i - 1].title
        text == strip(completed.stdout)
    IN  IF text = << >>
          THEN /\ title \notin DOMAIN milestone_numbers
               /\ \A n \in 1..Len(out) : "title" \in DOMAIN out[n] => out[n].title # title
          ELSE /\ json_loads(text).ok
               /\ "number" \in DOMAIN json_loads(text).data
               /\ title \in DOMAIN milestone_numbers
               /\ milestone_numbers[title] = json_loads(text).data["number"]
               /\ completed.stdout = OutMilestone7 => milestone_numbers[title] = 7
               /\ completed.stdout = OutMilestone5 => milestone_numbers[title] = 5
               /\ out[Len(out)] = [text |-> "Created milestone: ", title |-> title,
                                   number |-> milestone_numbers[title]]

\* C6 witness: the second milestone has just been recorded as 7, the first as 5.
C6_Witness ==
  /\ JustReturned("milestones_loop")
  /\ i = 3
  /\ completed = CompletedProcess(0, OutMilestone7, "")
  /\ milestone_numbers[milestones[2].title] = 7
  /\ milestones[1].title \in DOMAIN milestone_numbers
  /\ milestone_numbers[milestones[1].title] = 5

\* C7 (as claimed): every issue whose process succeeded has an entry in issue_numbers.
C7_AsClaimed ==
  \A j \in 1..Len(issues) :
    (IssueCall(j) <= Len(calls) /\ Exited(IssueCall(j)) /\ returncodes[IssueCall(j)] = 0) =>
      issues[j].title \in DOMAIN issue_numbers

\* C7 (amended): an issue whose process succeeded with an output that is non-empty once
\* trimmed has the entry title -> the text after the last "/" of the trimmed output
\* (all of it when it has no "/"), and a confirmation is printed; an issue whose
\* process failed, or succeeded with an empty output, gets no entry, and the loop goes
\* on with the next issue.
C7_IssueRecorded ==
  JustReturned("issues_loop") =>
    LET title == issues[i - 1].title
        text == strip(completed.stdout)
    IN  /\ Cardinality(IssueCalls) = i - 1
        /\ IF completed.returncode = 0 /\ text # << >>
             THEN /\ title \in DOMAIN issue_numbers
                  /\ \E a \in 1..(Len(text) + 1) :
                       /\ issue_numbers[title] = SubSeq(text, a, Len(text))
                       /\ a > 1 => text[a - 1] = "/"
                       /\ \A b \in a..Len(text) : text[b] # "/"
                  /\ completed.stdout = OutIssue42 => issue_numbers[title] = << "4", "2" >>
                  /\ out[Len(out)] = [text |-> "Created issue #", title |-> title,
                                      issue_number |-> issue_numbers[title]]
             ELSE /\ title \notin DOMAIN issue_numbers
                  /\ \A n \in 1..Len(out) : "title" \in DOMAIN out[n] => out[n].title # title
        /\ ENABLED Next

\* C7 witness: the first issue failed and the second has just been recorded as "42".
C7_Witness ==
  /\ JustReturned("issues_loop")
  /\ i = 3
  /\ returncodes[IssueCall(1)] # 0
  /\ issues[1].title \notin DOMAIN issue_numbers
  /\ completed = CompletedProcess(0, OutIssue42, "")
  /\ issue_numbers[issues[2].title] = << "4", "2" >>

\* C8: the summary is the last five lines printed; it reports "Setup complete!", the
\* number of label records, the number of milestone records, and the number of entries
\* of issue_numbers, whichever label and milestone processes failed.
C8_Summary ==
  pc = "done" =>
    /\ Len(out) >= 5
    /\ out[Len(out) - 4] = [text |-> "Setup complete!"]
    /\ out[Len(out) - 3] = [text |-> "Created labels", count |-> Len(labels)]
    /\ out[Len(out) - 2] = [text |-> "Created milestones", count |-> Len(milestones)]
    /\ out[Len(out) - 1] = [text |-> "Created issues", count |-> Cardinality(DOMAIN issue_numbers)]

\* C8 witness: the summary was printed after every label and every milestone failed and
\* one issue was recorded.
C8_Witness ==
  /\ pc = "done"
  /\ \A c \in LabelCalls \cup MilestoneCalls : returncodes[c] # 0
  /\ Cardinality(DOMAIN issue_numbers) = 1
  /\ Len(issues) > 1

\* s without its leading and its trailing whitespace is t.
Trimmed(s, t) ==
  \E a \in 1..(Len(s) + 1) : \E b \in 0..Len(s) :
    /\ t = SubSeq(s, a, b)
    /\ \A k \in 1..(a - 1) : s[k] \in Whitespace
    /\ \A k \in (b + 1)..Len(s) : s[k] \in Whitespace
    /\ t # << >> => t[1] \notin Whitespace /\ t[Len(t)] \notin Whitespace

\* C9: at the exit of a process, run_gh_command returns the trimmed standard output if
\* the exit code is 0; otherwise it returns None and appends the standard error of the
\* process to sys.stderr, and the step prints nothing, records nothing and raises
\* nothing.
C9_RunGhCommand ==
  [][Len(returncodes') = Len(returncodes) + 1 =>
       /\ completed'.returncode = returncodes'[Len(returncodes')]
       /\ IF completed'.returncode = 0
            THEN /\ ~result'.is_none
                 /\ Trimmed(completed'.stdout, result'.text)
                 /\ \A n \in 1..Len(err') : n > Len(err) => "stderr" \notin DOMAIN err'[n]
            ELSE /\ result' = None
                 /\ err' = Append(err, [text |-> "Error running gh command: ",
                                        stderr |-> completed'.stderr])
                 /\ out' = out
                 /\ milestone_numbers' = milestone_numbers
                 /\ issue_numbers' = issue_numbers
                 /\ exit_status' = "running"]_vars

\* C9 witness: a process has just exited 0 with output that ends in a newline, after a
\* process that failed with a non-empty standard output.
C9_Witness ==
  /\ JustReturned("issues_loop")
  /\ completed = CompletedProcess(0, OutIssue42, "")
  /\ result.text = SubSeq(OutIssue42, 1, Len(OutIssue42) - 1)
  /\ \E k \in 1..Len(milestones) : returncodes[MilestoneCall(k)] # 0
  /\ \E n \in 1..Len(err) : err[n].stderr = "gh: Validation Failed (HTTP 422)"

\* C10: the step that ends the process of a label prints the confirmation of that label
\* if the value returned is not None and prints nothing if it is None; either way the
\* loop goes on: the step after it spawns the process of the next label, or leaves the
\* loop when that was the last label.
C10_LabelConfirmation ==
  [][/\ pc = "labels_wait" =>
          /\ out' = IF result'.is_none
                      THEN out
                      ELSE Append(out, [text |-> "Created label: ", name |-> labels[i].name])
          /\ pc' = "labels_loop"
          /\ i' = i + 1
          /\ exit_status' = "running"
     /\ pc = "labels_loop" =>
          IF i <= Len(labels)
            THEN /\ Len(calls') = Len(calls) + 1
                 /\ RecordOf(calls'[Len(calls')]) = << "label", labels[i].name >>
            ELSE /\ pc' = "create_milestones"
                 /\ Cardinality(LabelCalls) = Len(labels)]_vars

\* C10 witness: the label phase is over; the first label failed and has no confirmation,
\* the second returned the empty text and has one.
C10_Witness ==
  /\ pc = "create_milestones"
  /\ returncodes[1] # 0
  /\ result = Some(<< >>)
  /\ out = << [text |-> "Setting up GitHub issues for " \o OWNER \o "/" \o REPO],
              [text |-> "Creating labels..."],
              [text |-> "Created label: ", name |-> labels[2].name] >>

InMilestonePhase == pc \in {"create_milestones", "milestones_loop", "milestones_wait"}

\* C11 (as claimed): milestone_numbers is the only state built at run time: no step
\* changes milestone_numbers outside the milestone phase, no step changes the three
\* lists, and no step builds another mapping.
C11_AsClaimed ==
  [][/\ milestone_numbers' # milestone_numbers => InMilestonePhase
     /\ data' = data
     /\ issue_numbers' = issue_numbers]_vars

\* C11 (amended): milestone_numbers changes only in steps of the milestone phase, each
\* of which adds one title of the milestones list (or starts from the empty dict), and
\* every step from the issue phase on leaves it unchanged; the other mapping built at
\* run time, issue_numbers, changes only in steps of the issue phase; no step changes
\* the labels, milestones or issues list.
C11_MappingFrame ==
  [][/\ milestone_numbers' # milestone_numbers =>
          /\ InMilestonePhase
          /\ \/ milestone_numbers' = EmptyDict
             \/ /\ pc = "milestones_wait"
                /\ DOMAIN milestone_numbers' = DOMAIN milestone_numbers \cup {milestones[i].title}
                /\ \A t \in DOMAIN milestone_numbers :
                     t # milestones[i].title => milestone_numbers'[t] = milestone_numbers[t]
     /\ (InIssuePhase \/ pc \in {"summary", "done"}) => milestone_numbers' = milestone_numbers
     /\ issue_numbers' # issue_numbers => InIssuePhase
     /\ labels' = labels /\ milestones' = milestones /\ issues' = issues]_vars

\* C11 witness: the issue phase is over, an issue failed and another was recorded, and
\* milestone_numbers still holds what the milestone phase wrote.
C11_Witness ==
  /\ pc = "summary"
  /\ DOMAIN milestone_numbers = {milestones[k].title : k \in 1..Len(milestones)}
  /\ \E c \in IssueCalls : returncodes[c] # 0
  /\ DictLen(issue_numbers) = 1
  /\ labels = SubSeq(LABELS, 1, Len(labels))
  /\ milestones = SubSeq(MILESTONES, 1, Len(milestones))

\* The record a printed line is about: the name or the title it carries.
LineAbout(line) ==
  IF "name" \in DOMAIN line THEN << "label", line.name >>
  ELSE IF "number" \in DOMAIN line THEN << "milestone", "title=" \o line.title >>
  ELSE << "issue", line.title >>

\* C12: at most one process is outstanding; a process is spawned only when every
\* earlier one has exited; and while one is outstanding the only step is its exit: no
\* process is spawned, and nothing is printed but a line about the record of that process.
C12_OneProcess ==
  [][/\ Cardinality(running') <= 1
     /\ Len(calls') > Len(calls) =>
          /\ running = {}
          /\ Len(returncodes) = Len(calls)
          /\ running' = {Len(calls')}
     /\ running # {} =>
          /\ calls' = calls
          /\ Len(returncodes') = Len(returncodes) + 1
          /\ running' = {}
          /\ \/ out' = out
             \/ /\ Len(out') = Len(out) + 1
                /\ SubSeq(out', 1, Len(out)) = out
                /\ LineAbout(out'[Len(out')]) = RecordOf(calls[Len(calls)])]_vars

\* C12 witness: the process of the second issue is outstanding and is the only one.
C12_Witness ==
  /\ pc = "issues_wait"
  /\ Len(calls) = IssueCall(2)
  /\ running = {IssueCall(2)}
  /\ Len(returncodes) = IssueCall(1)

\* The value that follows --label in an argument list.
LabelArgValue(call) == call[(CHOOSE k \in 1..Len(call) : call[k] = "--label") + 1]

\* The first n items of a list, each followed by a comma but the last; built from the left.
RECURSIVE CommaList(_, _)
CommaList(items, n) ==
  IF n = 0 THEN ""
  ELSE IF n = 1 THEN items[1]
  ELSE CommaList(items, n - 1) \o "," \o items[n]

\* C13: the --label argument of the process of an issue is the labels of the record in
\* the order of the record, every one of them, separated by commas, whatever the
\* processes of the label phase exited with.
C13_LabelArg ==
  \A j \in 1..Len(issues) :
    IssueCall(j) <= Len(calls) =>
      LET call == calls[IssueCall(j)]
      IN  /\ call[8] = "--label"
          /\ LabelArgValue(call) = CommaList(issues[j].labels, Len(issues[j].labels))
          /\ issues[j].labels = << "epic", "P0-critical", "backend", "infrastructure" >>
               => call[9] = "epic,P0-critical,backend,infrastructure"
          /\ issues[j].labels = << "story", "P0-critical", "pwa", "frontend" >>
               => call[9] = "story,P0-critical,pwa,frontend"

\* C13 witness: every label process failed and the first issue of ISSUES was invoked
\* with its four labels.
C13_Witness ==
  /\ IssueCalls # {}
  /\ \A a \in LabelCalls : returncodes[a] # 0
  /\ issues[1].labels = << "epic", "P0-critical", "backend", "infrastructure" >>
  /\ LabelArgValue(calls[IssueCall(1)]) = "epic,P0-critical,backend,infrastructure"

\* The confirmation lines of issues in what was printed.
IssueLines(o) == {n \in 1..Len(o) : "issue_number" \in DOMAIN o[n]}

DistinctTitles == \A a, b \in 1..Len(issues) : a # b => issues[a].title # issues[b].title

\* C14: the issue phase starts with no confirmation and no entry; the exit of an issue
\* process adds one confirmation and the entry of its title exactly when it exited 0
\* with an output that is non-empty once trimmed, and adds nothing otherwise; the count
\* the summary prints is the number of distinct titles confirmed: the number of
\* confirmations when the titles of the list are pairwise distinct, and less when a
\* title was confirmed twice.
C14_IssueCount ==
  [][/\ pc = "create_issues" =>
          IssueLines(out') = {} /\ issue_numbers' = EmptyDict
     /\ pc = "issues_wait" =>
          IF completed'.returncode = 0 /\ strip(completed'.stdout) # << >>
            THEN /\ IssueLines(out') = IssueLines(out) \cup {Len(out')}
                 /\ Len(out') = Len(out) + 1
                 /\ out'[Len(out')].title = issues[i].title
                 /\ DOMAIN issue_numbers' = DOMAIN issue_numbers \cup {issues[i].title}
            ELSE /\ out' = out
                 /\ issue_numbers' = issue_numbers
     /\ pc = "summary" =>
          LET printed == out'[Len(out') - 1].count
              confirmed == {out[n].title : n \in IssueLines(out)}
          IN  /\ out'[Len(out') - 1].text = "Created issues"
              /\ printed = Cardinality(confirmed)
              /\ DistinctTitles => printed = Cardinality(IssueLines(out))
              /\ (\E a, b \in IssueLines(out) : a # b /\ out[a].title = out[b].title)
                   => printed < Cardinality(IssueLines(out))]_vars

\* C14 witness: two issues with one title both succeeded and the summary counts one.
C14_Witness ==
  /\ pc = "done"
  /\ ~DistinctTitles
  /\ Cardinality(IssueLines(out)) = 2
  /\ \A c \in IssueCalls : returncodes[c] = 0
  /\ out[Len(out) - 1] = [text |-> "Created issues", count |-> 1]

\* C15: when a process exits 0 with an output that is empty once trimmed, nothing is
\* written to sys.stderr and the run goes on; create_labels prints the confirmation of
\* the label, while create_milestones and create_issues print nothing and add no entry,
\* as they do for a process that failed.
C15_EmptyOutput ==
  [][(/\ Len(returncodes') = Len(returncodes) + 1
      /\ completed'.returncode = 0
      /\ strip(completed'.stdout) = << >>) =>
       /\ result' = Some(<< >>)
       /\ err' = err
       /\ exit_status' = "running"
       /\ i' = i + 1
       /\ milestone_numbers' = milestone_numbers
       /\ issue_numbers' = issue_numbers
       /\ pc = "labels_wait" =>
            out' = Append(out, [text |-> "Created label: ", name |-> labels[i].name])
       /\ pc = "milestones_wait" => out' = out /\ pc' = "milestones_loop"
       /\ pc = "issues_wait" => out' = out /\ pc' = "issues_loop"]_vars

\* C15 witness: the run is over; every process exited 0 with an empty output, every
\* label was confirmed, and no milestone and no issue was recorded or confirmed.
C15_Witness ==
  /\ pc = "done"
  /\ \A c \in 1..Len(returncodes) : returncodes[c] = 0
  /\ err = << >>
  /\ milestone_numbers = EmptyDict
  /\ issue_numbers = EmptyDict
  /\ Len(out) = 4 + Len(labels) + 5
  /\ \A k \in 1..Len(labels) : out[2 + k] = [text |-> "Created label: ", name |-> labels[k].name]

\* The declared data: every issue has a milestone that is the title of a record of
\* MILESTONES and only labels that are names of records of LABELS, and no two
\* milestones share a title and no two labels a name.
DeclaredDataClosed ==
  /\ \A j \in 1..Len(ISSUES) :
       /\ "milestone" \in DOMAIN ISSUES[j]
       /\ \E k \in 1..Len(MILESTONES) : MILESTONES[k].title = ISSUES[j].milestone
       /\ \A n \in 1..Len(ISSUES[j].labels) :
            \E l \in 1..Len(LABELS) : LABELS[l].name = ISSUES[j].labels[n]
  /\ \A a, b \in 1..Len(MILESTONES) : a # b => MILESTONES[a].title # MILESTONES[b].title
  /\ \A a, b \in 1..Len(LABELS) : a # b => LABELS[a].name # LABELS[b].name

\* C16: the declared data is referentially closed; and in a run, once every milestone
\* of the list has its entry in milestone_numbers, every issue process is spawned with
\* a --milestone argument.
C16_ReferentiallyClosed ==
  /\ DeclaredDataClosed
  /\ (\A k \in 1..Len(milestones) : milestones[k].title \in DOMAIN milestone_numbers) =>
       \A c \in IssueCalls : HasMilestoneArg(calls[c])

\* C16 witness: the run is over, both milestones were recorded, and the issues, which
\* name different milestones, were both invoked with --milestone.
C16_Witness ==
  /\ pc = "done"
  /\ \A k \in 1..Len(milestones) : milestones[k].title \in DOMAIN milestone_numbers
  /\ issues[1].milestone # issues[2].milestone
  /\ Cardinality(IssueCalls) = Len(issues)
  /\ \A c \in IssueCalls : HasMilestoneArg(calls[c])

====
